---------------------------- MODULE Spec2Model ----------------------------
(***************************************************************************)
(* The disambiguation engine of hansard-speakers: worker_function of       *)
(* src/hansard/worker.py, one row at a time, with its five caches.         *)
(*                                                                         *)
(* Labels are strings, dates are integers (years), reference tables are    *)
(* sequences of rows (a DataFrame keeps its row order).                    *)
(***************************************************************************)
EXTENDS Integers, Sequences, FiniteSets, TLC

(***************************************************************************)
(* Bounds of the model.                                                    *)
(***************************************************************************)
\* Rows a worker processes in one run.
MaxRows == 3
\* Speech dates are 0..MaxDate.
MaxDate == 2
\* Rows of a table handed to match_edit_distance_df on its own.
MaxTableLen == 12
\* Words of a raw label handed to preprocess.
MaxWords == 3
\* Rows of a chunk the driver reads from the data file.
MaxChunkRows == 3
\* Chunks of the data file.
MaxChunks == 2

(***************************************************************************)
(* Program constants.                                                      *)
(***************************************************************************)
\* is_ignored: len(target) < 35
IgnoreLen == 35
\* match_edit_distance_df: max_possibles = 5
MaxPossibles == 5
\* worker_function: speaker.age_at(speechdate) < 20
MinAge == 20
\* worker_function: flag = 6 (the age / in-office narrowing resolved the row)
FlagNarrowed == 6
\* disambiguate(...) == -1: no resolution
NoResolution == -1
\* numpy.isnan(corresponding_id) / 'N/A': the unresolved sentinel of a row
NaN == 0
\* datetime.now(): the end of an interval the source data left open
Now == 99
\* run.py: CPU_CORES = 1
CPU_CORES == 1
\* office_id = None
NoOffice == 0

Dates == 0..MaxDate
DebateIds == {1, 2}

(***************************************************************************)
(* Strings.                                                                *)
(***************************************************************************)
Char(s, i) == SubSeq(s, i, i)

LowerCase == {"a", "b", "c", "d", "e", "f", "g", "h", "i", "j", "k", "l", "m",
              "n", "o", "p", "q", "r", "s", "t", "u", "v", "w", "x", "y", "z"}

\* \w of the regular expressions: letters, digits, underscore.
WordChar == LowerCase \cup {"0", "1", "2", "3", "4", "5", "6", "7", "8", "9", "_"}

\* needle in hay  /  hay.str.contains(needle, regex=False)
Contains(hay, needle) ==
    \E i \in 1..(Len(hay) - Len(needle) + 1) :
        SubSeq(hay, i, i + Len(needle) - 1) = needle

\* s.startswith(prefix)
StartsWith(s, prefix) ==
    /\ Len(prefix) <= Len(s)
    /\ SubSeq(s, 1, Len(prefix)) = prefix

\* re.sub(r'\b[a-z]\b', '', s), from position i on
RECURSIVE RemoveInitialsFrom(_, _)
RemoveInitialsFrom(s, i) ==
    IF i > Len(s) THEN ""
    ELSE LET c == Char(s, i)
             single == /\ c \in LowerCase
                       /\ (i = 1 \/ Char(s, i - 1) \notin WordChar)
                       /\ (i = Len(s) \/ Char(s, i + 1) \notin WordChar)
         IN  (IF single THEN "" ELSE c) \o RemoveInitialsFrom(s, i + 1)

\* re.sub(r'  +', ' ', s), from position i on
RECURSIVE CollapseSpacesFrom(_, _)
CollapseSpacesFrom(s, i) ==
    IF i > Len(s) THEN ""
    ELSE LET c == Char(s, i)
             dropped == c = " " /\ i > 1 /\ Char(s, i - 1) = " "
         IN  (IF dropped THEN "" ELSE c) \o CollapseSpacesFrom(s, i + 1)

\* The rewrite of target at the head of the name-permutation stage.
StripInitials(s) == CollapseSpacesFrom(RemoveInitialsFrom(s, 1), 1)

Abs(n) == IF n < 0 THEN -n ELSE n

\* Levenshtein distance of a[i..] and b[j..] is at most k.
RECURSIVE WithinFrom(_, _, _, _, _)
WithinFrom(a, i, b, j, k) ==
    LET ra == Len(a) - i + 1
        rb == Len(b) - j + 1
    IN  IF k < 0 \/ Abs(ra - rb) > k THEN FALSE
        ELSE IF ra = 0 \/ rb = 0 THEN TRUE
        ELSE IF Char(a, i) = Char(b, j) THEN WithinFrom(a, i + 1, b, j + 1, k)
        ELSE \/ WithinFrom(a, i + 1, b, j + 1, k - 1)
             \/ WithinFrom(a, i + 1, b, j, k - 1)
             \/ WithinFrom(a, i, b, j + 1, k - 1)

within_distance_two(a, b) == WithinFrom(a, 1, b, 1, 2)
within_distance_four(a, b) == WithinFrom(a, 1, b, 1, 4)


(***************************************************************************)
(* Values of the variable `match` and of the output column: None, a        *)
(* SpeakerReplacement, an alias string (what match_edit_distance_df        *)
(* returns for a row without a corresponding id), a bare id (what          *)
(* disambiguate returns for an id the registry lacks), the '|'-joined      *)
(* candidate list.                                                         *)
(***************************************************************************)
None == [kind |-> "none", id |-> 0, text |-> "", list |-> <<>>]
Speaker(i) == [kind |-> "speaker", id |-> i, text |-> "", list |-> <<>>]
Text(s) == [kind |-> "text", id |-> 0, text |-> s, list |-> <<>>]
BareId(i) == [kind |-> "id", id |-> i, text |-> "", list |-> <<>>]
\* l: the joined candidates, each a Speaker or a Text
Joined(l) == [kind |-> "joined", id |-> 0, text |-> "", list |-> l]

(***************************************************************************)
(* Reference data: what data: DataStruct holds when the worker starts.     *)
(***************************************************************************)
\* data.speaker_dict: member_id -> SpeakerReplacement
speaker_dict ==
    (1 :> [member_id |-> 1, dob |-> -50, start_date |-> 0, end_date |-> 2,
           term_start |-> 0, term_end |-> 2,
           aliases |-> {}, edit_distance_aliases |-> <<>>])
 @@ (4 :> [member_id |-> 4, dob |-> -60, start_date |-> 0, end_date |-> 2,
           term_start |-> 0, term_end |-> 2,
           aliases |-> {}, edit_distance_aliases |-> <<>>])
 @@ (5 :> [member_id |-> 5, dob |-> -40, start_date |-> 1, end_date |-> 2,
           term_start |-> 1, term_end |-> Now,
           aliases |-> {"smythe"}, edit_distance_aliases |-> <<"mr smyth">>])
 @@ (6 :> [member_id |-> 6, dob |-> -30, start_date |-> 0, end_date |-> 1,
           term_start |-> 0, term_end |-> 0,
           aliases |-> {"smythe", "mr jones"}, edit_distance_aliases |-> <<>>])
 @@ (7 :> [member_id |-> 7, dob |-> -18, start_date |-> 0, end_date |-> 1,
           term_start |-> 0, term_end |-> 2,
           aliases |-> {"smythe"},
           edit_distance_aliases |-> <<"mr browne", "mr brawn">>])

\* data.speakers, in load order
speakers == <<1, 4, 5, 6, 7>>

\* An id that reference rows carry and the registry lacks.
DanglingId == 9

\* data.lord_titles_df
lord_titles_df ==
    << [alias |-> "lord grey", start_search |-> 0, end_search |-> 1, corresponding_id |-> 4],
       [alias |-> "lord grey", start_search |-> 1, end_search |-> 2, corresponding_id |-> NaN],
       [alias |-> "lord grey", start_search |-> 2, end_search |-> Now, corresponding_id |-> DanglingId],
       [alias |-> "sir john", start_search |-> 1, end_search |-> 2, corresponding_id |-> NaN],
       [alias |-> "lord hold", start_search |-> 0, end_search |-> 1, corresponding_id |-> 1],
       [alias |-> "lord bolt", start_search |-> 0, end_search |-> 1, corresponding_id |-> 4],
       [alias |-> "lord hold", start_search |-> 1, end_search |-> 2, corresponding_id |-> 1],
       [alias |-> "lord bolt", start_search |-> 1, end_search |-> 2, corresponding_id |-> 4],
       [alias |-> "lord halt", start_search |-> 1, end_search |-> 2, corresponding_id |-> 5],
       [alias |-> "lord hold", start_search |-> 2, end_search |-> Now, corresponding_id |-> 1],
       [alias |-> "lord bolt", start_search |-> 2, end_search |-> Now, corresponding_id |-> 1] >>

\* data.aliases_df
aliases_df ==
    << [alias |-> "mr smith", start_search |-> 0, end_search |-> 1, corresponding_id |-> 1],
       [alias |-> "mr smith", start_search |-> 1, end_search |-> 2, corresponding_id |-> 5],
       [alias |-> "mr smith", start_search |-> 1, end_search |-> 2, corresponding_id |-> 6],
       [alias |-> "mr smith", start_search |-> 2, end_search |-> Now, corresponding_id |-> DanglingId],
       [alias |-> "sir john", start_search |-> 0, end_search |-> 1, corresponding_id |-> 4],
       [alias |-> "sir john", start_search |-> 0, end_search |-> 1, corresponding_id |-> NaN],
       [alias |-> "sir john", start_search |-> 1, end_search |-> 2, corresponding_id |-> 1] >>

\* data.office_dict.values(), in dict order
office_dict ==
    << [id |-> 1, aliases |-> <<"prime minister">>] >>

\* data.holdings_df
holdings_df ==
    << [office_id |-> 1, start_search |-> 0, end_search |-> 1, corresponding_id |-> 1],
       [office_id |-> 1, start_search |-> 1, end_search |-> 2, corresponding_id |-> 4],
       [office_id |-> 1, start_search |-> 1, end_search |-> 2, corresponding_id |-> 5],
       [office_id |-> 1, start_search |-> 2, end_search |-> Now, corresponding_id |-> 4],
       [office_id |-> 1, start_search |-> 2, end_search |-> Now, corresponding_id |-> 4] >>

\* data.inferences: debate id -> expected speaker id
inferences == (1 :> 6)

\* data.ignored_set
ignored_set == {"hon members"}

\* The normalized labels the rows carry.
LongLabel == "mrs a b c d e f g h i j k l m n jones"
Labels == {"mr smith", "mr a smith", "mrs jones", LongLabel, "hon members",
           "prime minister", "prime a b c minister",
           "lord grey", "lord gray", "smythe",
           "sir john", "lord holt", "prime ministr"}

\* Labels that only the first row of a worker carries: a key of alias_dict,
\* a label near two generated aliases of one speaker, a label that holds an
\* office alias, and two labels with an ignore prefix, of 34 and of 35
\* characters.
PrefixedLabel34 == "mrs abcdefghijklmnopqrstuvwxyzabcd"
PrefixedLabel35 == "mrs abcdefghijklmnopqrstuvwxyzabcde"
FirstRowLabels ==
    {"mr jones", "mr brown", "prime minister and first lord",
     PrefixedLabel34, PrefixedLabel35}
AllLabels == Labels \cup FirstRowLabels

\* Range of a sequence.
Range(q) == {q[i] : i \in 1..Len(q)}

\* data.alias_dict (FULL_ALIAS_DICT of run.py): alias -> speakers, in load order
AliasDictKeys == UNION {speaker_dict[i].aliases : i \in Range(speakers)}
alias_dict(alias) ==
    SelectSeq(speakers, LAMBDA i : alias \in speaker_dict[i].aliases)

\* edit_distance_dict, built before the loop: its keys in insertion order
RECURSIVE EditDistanceKeysFrom(_)
EditDistanceKeysFrom(n) ==
    IF n = 0 THEN <<>>
    ELSE LET before == EditDistanceKeysFrom(n - 1)
             mine == speaker_dict[speakers[n]].edit_distance_aliases
         IN  before \o SelectSeq(mine, LAMBDA a : a \notin Range(before))
edit_distance_keys == EditDistanceKeysFrom(Len(speakers))
\* edit_distance_dict[alias]: one entry per (speaker, generated alias) pair
RECURSIVE EditDistanceIdsFrom(_, _)
EditDistanceIdsFrom(alias, n) ==
    IF n = 0 THEN <<>>
    ELSE EditDistanceIdsFrom(alias, n - 1)
         \o [k \in 1..Len(SelectSeq(speaker_dict[speakers[n]].edit_distance_aliases,
                                    LAMBDA a : a = alias)) |-> speakers[n]]
edit_distance_dict(alias) == EditDistanceIdsFrom(alias, Len(speakers))

(***************************************************************************)
(* SpeakerReplacement and disambiguate.                                    *)
(***************************************************************************)
\* speaker.matches(target, speechdate, cleanse=False)
matches(s, target, speechdate) ==
    /\ target \in s.aliases
    /\ s.start_date <= speechdate
    /\ speechdate <= s.end_date

\* speaker.age_at(speechdate)
age_at(s, speechdate) == speechdate - s.dob

\* speaker.is_in_office(speechdate)
is_in_office(s, speechdate) ==
    s.term_start <= speechdate /\ speechdate < s.term_end

\* disambiguate(target, speechdate, house, debate_id, speaker_dict)
disambiguate(target, speechdate, debate_id) ==
    IF target = "prime minister" /\ speechdate = 1 /\ debate_id = 2 THEN 4
    ELSE NoResolution


(***************************************************************************)
(* The functions of worker.py.                                             *)
(***************************************************************************)
IGNORE_KEYWORDS == <<>>
IGNORE_PREFIXES == <<"mrs ", "miss ", "a ", "an ">>

is_ignored(target) ==
    /\ Len(target) < IgnoreLen
    /\ \/ \E k \in 1..Len(IGNORE_KEYWORDS) : Contains(target, IGNORE_KEYWORDS[k])
       \/ \E k \in 1..Len(IGNORE_PREFIXES) : StartsWith(target, IGNORE_PREFIXES[k])

\* InTerm with the end of the interval included.
InTermClosed(r, date) == date >= r.start_search /\ date <= r.end_search

\* (date >= df['start_search']) & (date < df['end_search']), for one row
InTerm(r, date) == date >= r.start_search /\ date < r.end_search

match_term(df, date) == SelectSeq(df, LAMBDA r : InTerm(r, date))

\* bool(match): None and the empty string are false
Truthy(v) == v.kind # "none" /\ ~(v.kind = "text" /\ v.text = "")

\* Exhausted without the test of max_possibles.
NeverExhausted(max_possibles) == FALSE

\* if not max_possibles: break
Exhausted(max_possibles) == max_possibles = 0

\* The loop of match_edit_distance_df over the first n rows of query.
RECURSIVE EditDistanceScan(_, _, _)
EditDistanceScan(target, query, n) ==
    IF n = 0
    THEN [match |-> None, ambiguity |-> FALSE, possibles |-> <<>>,
          max_possibles |-> MaxPossibles, broke |-> FALSE, error |-> FALSE]
    ELSE LET st == EditDistanceScan(target, query, n - 1)
             r == query[n]
             id == r.corresponding_id
             found == IF id = NaN THEN Text(r.alias) ELSE Speaker(id)
             missing == id # NaN /\ id \notin DOMAIN speaker_dict
         IN  IF st.broke \/ st.error \/ ~within_distance_two(target, r.alias) THEN st
             ELSE IF missing THEN [st EXCEPT !.error = TRUE]
             ELSE IF Truthy(st.match)
             THEN [st EXCEPT !.max_possibles = @ - 1,
                             !.match = None,
                             !.ambiguity = TRUE,
                             !.possibles = Append(@, found),
                             !.broke = Exhausted(st.max_possibles - 1)]
             ELSE [st EXCEPT !.match = found]

match_edit_distance_df(target, date, df) ==
    LET query == match_term(df, date)
    IN  EditDistanceScan(target, query, Len(query))

\* query.drop_duplicates(subset=['corresponding_id']): the first row of each id
RECURSIVE drop_duplicates(_)
drop_duplicates(q) ==
    IF q = <<>> THEN <<>>
    ELSE LET init == drop_duplicates(SubSeq(q, 1, Len(q) - 1))
             last == q[Len(q)]
         IN  IF \E j \in 1..Len(init) : init[j].corresponding_id = last.corresponding_id
             THEN init
             ELSE Append(init, last)

(***************************************************************************)
(* The normalizer: preprocess and postprocess of worker_function.          *)
(***************************************************************************)
\* s.strip(), the leading part: the index of the first character that is not
\* a space, from i on; and the trailing part: the last such index, from j down.
RECURSIVE FirstNonSpace(_, _)
FirstNonSpace(s, i) ==
    IF i > Len(s) \/ Char(s, i) # " " THEN i ELSE FirstNonSpace(s, i + 1)

RECURSIVE LastNonSpace(_, _)
LastNonSpace(s, j) ==
    IF j < 1 \/ Char(s, j) # " " THEN j ELSE LastNonSpace(s, j - 1)

Strip(s) == SubSeq(s, FirstNonSpace(s, 1), LastNonSpace(s, Len(s)))

\* s.endswith(suffix)
EndsWith(s, suffix) ==
    /\ Len(suffix) <= Len(s)
    /\ SubSeq(s, Len(s) - Len(suffix) + 1, Len(s)) = suffix

\* s.replace(old, new), from position i on
RECURSIVE ReplaceFrom(_, _, _, _)
ReplaceFrom(s, i, old, new) ==
    IF i > Len(s) THEN ""
    ELSE IF i + Len(old) - 1 <= Len(s) /\ SubSeq(s, i, i + Len(old) - 1) = old
    THEN new \o ReplaceFrom(s, i + Len(old), old, new)
    ELSE Char(s, i) \o ReplaceFrom(s, i + 1, old, new)

\* The index of the first parenthesis of s at or after i (Len(s) + 1: none).
RECURSIVE NextParen(_, _)
NextParen(s, i) ==
    IF i > Len(s) \/ Char(s, i) \in {"(", ")"} THEN i ELSE NextParen(s, i + 1)

\* s[i..j] is a match of \([^()]+\): the index j of its closing parenthesis,
\* 0 when no match starts at i.
ParenEnd(s, i) ==
    LET j == NextParen(s, i + 1)
    IN  IF Char(s, i) = "(" /\ j <= Len(s) /\ Char(s, j) = ")" /\ j > i + 1
        THEN j ELSE 0

\* re.search(PARENTHESIS_REGEX, s): the group of the first match, from i on
RECURSIVE ParenSearch(_, _)
ParenSearch(s, i) ==
    IF i > Len(s) THEN [found |-> FALSE, group |-> ""]
    ELSE IF ParenEnd(s, i) # 0
    THEN [found |-> TRUE, group |-> SubSeq(s, i + 1, ParenEnd(s, i) - 1)]
    ELSE ParenSearch(s, i + 1)

\* REGEX_PRE_CORRECTIONS: re.sub(r'(?:\([^()]+\))', '', s), from i on
RECURSIVE RemoveParensFrom(_, _)
RemoveParensFrom(s, i) ==
    IF i > Len(s) THEN ""
    ELSE IF ParenEnd(s, i) # 0 THEN RemoveParensFrom(s, ParenEnd(s, i) + 1)
    ELSE Char(s, i) \o RemoveParensFrom(s, i + 1)

\* cleanse_string: case folding, punctuation and whitespace normalization.
UpperCase == <<"A", "B", "C", "D", "E", "F", "G", "H", "I", "J", "K", "L", "M",
               "N", "O", "P", "Q", "R", "S", "T", "U", "V", "W", "X", "Y", "Z">>
LowerLetters == <<"a", "b", "c", "d", "e", "f", "g", "h", "i", "j", "k", "l", "m",
                  "n", "o", "p", "q", "r", "s", "t", "u", "v", "w", "x", "y", "z">>
Fold(c) ==
    IF \E k \in 1..26 : UpperCase[k] = c
    THEN LowerLetters[CHOOSE k \in 1..26 : UpperCase[k] = c]
    ELSE c

\* The characters of s folded, those that are no letter, digit, space or
\* hyphen dropped, from i on.
RECURSIVE FoldAndDropFrom(_, _)
FoldAndDropFrom(s, i) ==
    IF i > Len(s) THEN ""
    ELSE LET c == Fold(Char(s, i))
         IN  (IF c \in WordChar \cup {" ", "-"} /\ c # "_" THEN c ELSE "")
             \o FoldAndDropFrom(s, i + 1)

cleanse_string(s) ==
    LET kept == FoldAndDropFrom(s, 1)
    IN  Strip(CollapseSpacesFrom(kept, 1))

\* data.corrections: misspelling -> correction
misspellings_dict == << [misspell |-> "smiht", correction |-> "smith"] >>

\* The rules of REGEX_POST_CORRECTIONS that can match a label made of the
\* words of RawWords, in list order:
\*   ('^this +', 'the '), ('^the +', ''), (' said$', ''), ('^.+ mr ', 'mr ')
REGEX_POST_CORRECTIONS ==
    << [kind |-> "leading", word |-> "this", repl |-> "the "],
       [kind |-> "leading", word |-> "the", repl |-> ""],
       [kind |-> "trailing", word |-> "said", repl |-> ""],
       [kind |-> "upto", word |-> "mr", repl |-> "mr "] >>

\* The start of the last occurrence of needle in s that starts at or before
\* i and after the first character (0: none).
RECURSIVE LastOccurrence(_, _, _)
LastOccurrence(s, needle, i) ==
    IF i < 2 THEN 0
    ELSE IF i + Len(needle) - 1 <= Len(s) /\ SubSeq(s, i, i + Len(needle) - 1) = needle
    THEN i
    ELSE LastOccurrence(s, needle, i - 1)

\* re.sub(k, v, s) for one rule (k, v)
ReSub(rule, s) ==
    IF rule.kind = "leading"
    THEN \* '^word +'
         IF StartsWith(s, rule.word \o " ")
         THEN rule.repl \o SubSeq(s, FirstNonSpace(s, Len(rule.word) + 1), Len(s))
         ELSE s
    ELSE IF rule.kind = "trailing"
    THEN \* ' word$'
         IF EndsWith(s, " " \o rule.word)
         THEN SubSeq(s, 1, Len(s) - Len(rule.word) - 1) \o rule.repl
         ELSE s
    ELSE \* '^.+ word ': the greedy .+ takes all up to the last ' word '
         LET at == LastOccurrence(s, " " \o rule.word \o " ", Len(s))
         IN  IF at = 0 THEN s
             ELSE rule.repl \o SubSeq(s, at + Len(rule.word) + 2, Len(s))

\* for k, v in REGEX_POST_CORRECTIONS: string_val = re.sub(k, v, string_val)
RECURSIVE ApplyRules(_, _)
ApplyRules(s, n) ==
    IF n = 0 THEN s ELSE ReSub(REGEX_POST_CORRECTIONS[n], ApplyRules(s, n - 1))

postprocess(string_val) ==
    Strip(ApplyRules(string_val, Len(REGEX_POST_CORRECTIONS)))

\* for misspell in misspellings_dict: string_val = string_val.replace(...)
RECURSIVE ApplyCorrections(_, _)
ApplyCorrections(s, n) ==
    IF n = 0 THEN s
    ELSE ReplaceFrom(ApplyCorrections(s, n - 1), 1,
                     misspellings_dict[n].misspell, misspellings_dict[n].correction)

preprocess(string_val) ==
    LET p_match == ParenSearch(string_val, 1)
        inner_string == postprocess(cleanse_string(p_match.group))
        corrected == ApplyCorrections(cleanse_string(RemoveParensFrom(string_val, 1)),
                                      Len(misspellings_dict))
    IN  IF p_match.found /\ inner_string \in AliasDictKeys
        THEN inner_string
        ELSE postprocess(cleanse_string(corrected))

\* The raw labels: up to MaxWords of these words, one space between two.
RawWords == {"the", "this", "mr", "smith", "said", "(smythe)", "(said)", "Mr."}
RECURSIVE Phrases(_)
Phrases(n) ==
    IF n = 1 THEN RawWords
    ELSE Phrases(n - 1) \cup {p \o " " \o w : p \in Phrases(n - 1), w \in RawWords}
RawLabels == Phrases(MaxWords)

(***************************************************************************)
(* The cascade of worker_function for one row.  A stage takes and returns  *)
(* the row's local variables:                                              *)
(*   target, match, ambiguity, possibles, query, office_id, fuzzy_flag,    *)
(*   flag, and error (an exception no handler of the loop catches);        *)
(* lord_query, alias_query, holdings_query and edit_query keep what each   *)
(* lookup selected, ran the lookups made, provisional the value of         *)
(* ambiguity after the exact stages, failed_lookup that speaker_dict[...]  *)
(* raised KeyError for the row.                                            *)
(***************************************************************************)
Locals(target, match) ==
    [target |-> target, match |-> match, ambiguity |-> FALSE, possibles |-> <<>>,
     query |-> <<>>, office_id |-> NoOffice, fuzzy_flag |-> 0, flag |-> 0,
     error |-> FALSE,
     lord_query |-> <<>>, alias_query |-> <<>>, holdings_query |-> <<>>,
     edit_query |-> <<>>, ran |-> {}, provisional |-> FALSE, failed_lookup |-> FALSE]

\* The office loop of the exact cascade: the id the loop leaves in office_id.
RECURSIVE OfficeLoop(_, _)
OfficeLoop(target, n) ==
    IF n > Len(office_dict) THEN NoOffice
    ELSE IF target \in Range(office_dict[n].aliases) THEN office_dict[n].id
    ELSE OfficeLoop(target, n + 1)

LordTitlesQuery(target, date) ==
    SelectSeq(lord_titles_df, LAMBDA r : InTerm(r, date) /\ Contains(r.alias, target))

AliasesQuery(target, date) ==
    SelectSeq(aliases_df, LAMBDA r : InTerm(r, date) /\ Contains(r.alias, target))

HoldingsQuery(office_id, date) ==
    SelectSeq(holdings_df, LAMBDA r : InTerm(r, date) /\ office_id = r.office_id)

\* NoRows without the test of the length.
AnyRows(query) == TRUE

\* not len(query)
NoRows(query) == Len(query) = 0

\* Lord titles, name aliases, office holdings; then the count of distinct ids.
ExactStage(s, date) ==
    IF Truthy(s.match) THEN s
    ELSE LET lords == LordTitlesQuery(s.target, date)
             names == AliasesQuery(s.target, date)
             tryNames == NoRows(lords)
             q2 == IF tryNames THEN names ELSE lords
             tryOffice == NoRows(q2)
             office_id == IF tryOffice THEN OfficeLoop(s.target, 1) ELSE NoOffice
             holds == HoldingsQuery(office_id, date)
             q3 == IF tryOffice /\ office_id # NoOffice THEN holds ELSE q2
             query == drop_duplicates(q3)
             speaker_id == query[1].corresponding_id
             one == Len(query) = 1
             found == one /\ speaker_id # NaN /\ speaker_id \in DOMAIN speaker_dict
         IN  [s EXCEPT
                !.query = query,
                !.office_id = office_id,
                !.match = IF found THEN Speaker(speaker_id) ELSE IF one THEN None ELSE s.match,
                !.ambiguity = Len(query) > 1,
                !.provisional = Len(query) > 1,
                !.failed_lookup = one /\ speaker_id # NaN /\ ~found,
                !.lord_query = lords,
                !.alias_query = IF tryNames THEN names ELSE <<>>,
                !.holdings_query = IF tryOffice /\ office_id # NoOffice THEN holds ELSE <<>>,
                !.ran = {"lord"} \cup (IF tryNames THEN {"alias"} ELSE {})
                        \cup (IF tryOffice /\ office_id # NoOffice THEN {"holdings"} ELSE {})]

\* possibles = alias_dict.get(target), filtered by speaker.matches
AliasDictStage(s, date) ==
    IF Truthy(s.match) THEN s
    ELSE IF s.target \notin AliasDictKeys THEN [s EXCEPT !.possibles = <<>>]
    ELSE LET possibles ==
                 SelectSeq(alias_dict(s.target),
                           LAMBDA i : matches(speaker_dict[i], s.target, date))
         IN  IF Len(possibles) = 1
             THEN [s EXCEPT !.possibles = <<Speaker(possibles[1])>>,
                            !.match = Speaker(possibles[1]),
                            !.ambiguity = FALSE]
             ELSE [s EXCEPT !.possibles = [k \in 1..Len(possibles) |-> Speaker(possibles[k])],
                            !.ambiguity = TRUE]

\* Try edit distance with lord titles.
EditDistanceTitleStage(s, date) ==
    IF s.error \/ Truthy(s.match) \/ s.ambiguity THEN s
    ELSE LET res == match_edit_distance_df(s.target, date, lord_titles_df)
         IN  [s EXCEPT !.match = res.match,
                       !.ambiguity = res.ambiguity,
                       !.possibles = res.possibles,
                       !.error = res.error,
                       !.failed_lookup = @ \/ res.error,
                       !.fuzzy_flag = IF Truthy(res.match) THEN 1 ELSE @,
                       !.edit_query = match_term(lord_titles_df, date),
                       !.ran = @ \cup {"edit"}]

\* office_ids: one entry per office alias within distance four of target
RECURSIVE OfficeIdsWithin(_, _)
OfficeIdsWithin(target, n) ==
    IF n = 0 THEN <<>>
    ELSE LET office == office_dict[n]
             hits == SelectSeq(office.aliases, LAMBDA a : within_distance_four(a, target))
         IN  OfficeIdsWithin(target, n - 1) \o [k \in 1..Len(hits) |-> office.id]

\* Try edit distance with office holdings.
EditDistanceOfficeStage(s, date) ==
    IF s.error \/ Truthy(s.match) \/ s.ambiguity THEN s
    ELSE LET office_ids == OfficeIdsWithin(s.target, Len(office_dict))
             query == SelectSeq(holdings_df,
                                LAMBDA r : InTerm(r, date) /\ r.office_id \in Range(office_ids))
             id == query[1].corresponding_id
         IN  IF office_ids = <<>> THEN s
             ELSE IF Len(query) = 1
             THEN IF id = NaN
                  THEN [s EXCEPT !.query = query, !.match = None, !.ambiguity = FALSE]
                  ELSE IF id \notin DOMAIN speaker_dict
                  THEN [s EXCEPT !.query = query, !.error = TRUE, !.failed_lookup = TRUE]
                  ELSE [s EXCEPT !.query = query, !.match = Speaker(id), !.fuzzy_flag = 1]
             ELSE IF Len(query) > 1
             THEN [s EXCEPT !.query = query, !.match = None, !.ambiguity = TRUE]
             ELSE [s EXCEPT !.query = query]

\* The speakers the scan of edit_distance_dict appends, over its first n keys.
RECURSIVE NamePermutationScan(_, _, _)
NamePermutationScan(target, date, n) ==
    IF n = 0 THEN <<>>
    ELSE LET alias == edit_distance_keys[n]
             ids == IF within_distance_two(target, alias)
                    THEN SelectSeq(edit_distance_dict(alias),
                                   LAMBDA i : /\ speaker_dict[i].start_date <= date
                                              /\ date <= speaker_dict[i].end_date)
                    ELSE <<>>
         IN  NamePermutationScan(target, date, n - 1)
             \o [k \in 1..Len(ids) |-> Speaker(ids[k])]

\* Try edit distance with MP name permutations: target loses its initials.
NamePermutationStage(s, date) ==
    IF s.error \/ Truthy(s.match) \/ s.ambiguity THEN s
    ELSE LET target == StripInitials(s.target)
             possibles == NamePermutationScan(target, date, Len(edit_distance_keys))
         IN  [s EXCEPT !.target = target,
                       !.possibles = possibles,
                       !.fuzzy_flag = IF Len(possibles) > 0 THEN 1 ELSE @,
                       !.match = IF Len(possibles) = 1 THEN possibles[1] ELSE @,
                       !.ambiguity = Len(possibles) > 1]

\* InCandidates without the membership test.
AnyCandidate(hinted, possibles) == TRUE

\* match in possibles
InCandidates(hinted, possibles) == hinted \in Range(possibles)

\* match = speaker_dict.get(data.inferences.get(debate_id, None), None)
InferenceStage(s, debate_id) ==
    IF s.error \/ ~(s.ambiguity /\ s.possibles # <<>>) THEN s
    ELSE LET hinted == IF debate_id \in DOMAIN inferences
                          /\ inferences[debate_id] \in DOMAIN speaker_dict
                       THEN Speaker(inferences[debate_id])
                       ELSE None
         IN  IF ~InCandidates(hinted, s.possibles)
             THEN [s EXCEPT !.match = None]
             ELSE [s EXCEPT !.match = hinted, !.ambiguity = FALSE, !.possibles = <<>>]

\* The elements of a finite set of integers, in increasing order.
RECURSIVE Ascending(_)
Ascending(S) ==
    IF S = {} THEN <<>>
    ELSE LET m == CHOOSE x \in S : \A y \in S : x <= y
         IN  <<m>> \o Ascending(S \ {m})

\* OldEnough without the age test.
AnyAge(speaker, date) == TRUE

\* The candidate passes the age test of the narrowing.
OldEnough(speaker, date) == ~(age_at(speaker, date) < MinAge)

\* Filters out duplicates, the candidates under 20 and those not in office.
NarrowingStage(s, date) ==
    IF s.error \/ ~(s.ambiguity /\ s.possibles # <<>>) THEN s
    ELSE IF \E v \in Range(s.possibles) : v.kind # "speaker"
    THEN [s EXCEPT !.error = TRUE]
    ELSE LET speaker_ids == Ascending({v.id : v \in Range(s.possibles)})
             kept == SelectSeq(speaker_ids,
                               LAMBDA i : /\ OldEnough(speaker_dict[i], date)
                                          /\ is_in_office(speaker_dict[i], date))
             possibles == [k \in 1..Len(kept) |-> Speaker(kept[k])]
         IN  IF Len(possibles) = 1
             THEN [s EXCEPT !.possibles = possibles, !.ambiguity = FALSE,
                            !.match = possibles[1], !.flag = FlagNarrowed]
             ELSE [s EXCEPT !.possibles = possibles]

\* The last resort: disambiguate.
DisambiguateStage(s, date, debate_id) ==
    IF s.error \/ ~s.ambiguity THEN s
    ELSE LET r == disambiguate(s.target, date, debate_id)
         IN  IF r = NoResolution THEN [s EXCEPT !.match = None]
             ELSE [s EXCEPT !.ambiguity = FALSE,
                            !.match = IF r \in DOMAIN speaker_dict THEN Speaker(r) ELSE BareId(r)]

\* The stages in the order of the loop body.
Cascade(target, match, date, debate_id) ==
    DisambiguateStage(
      NarrowingStage(
        InferenceStage(
          NamePermutationStage(
            EditDistanceOfficeStage(
              EditDistanceTitleStage(
                AliasDictStage(
                  ExactStage(Locals(target, match), date),
                  date),
                date),
              date),
            date),
          debate_id),
        date),
      date, debate_id)

\* The cascade of every row whose pair MATCH_CACHE does not hold, computed once.
FreshCascade ==
    [target \in AllLabels, speechdate \in Dates, debate_id \in DebateIds |->
        Cascade(target, None, speechdate, debate_id)]

\* is_ignored(target) or target in data.ignored_set, computed once per label.
IgnoreCheck ==
    [target \in AllLabels |-> is_ignored(target) \/ target \in ignored_set]

(***************************************************************************)
(* The state of one worker.                                                *)
(***************************************************************************)
VARIABLES
    MATCH_CACHE,    \* (target, speechdate) -> match
    MISS_CACHE,     \* set of (target, speechdate)
    AMBIG_CACHE,    \* (target, speechdate) -> joined candidates or None
    IGNORED_CACHE,  \* set of target
    FUZZY_CACHE,    \* set of (target, speechdate)
    row,            \* the row of the loop: its columns and its local variables
    chunk,          \* the rows of the chunk classified so far (distinct ones)
    nrows,          \* how many rows the worker has taken
    crashed,        \* an exception has left worker_function
    ed_df,          \* match_edit_distance_df on its own: the table df
    ed_result,      \* ... and what the last call returned
    raw,            \* preprocess on its own: the raw label of chunk['speaker']
    label,          \* ... the label after the applications of preprocess so far
    previous,       \* ... the label before the last application
    applied,        \* ... how many times preprocess has been applied
    pc,             \* the driver of run.py: where it is
    chunks_read,    \* ... the chunks read_csv has given it
    processes,      \* ... the worker processes it created, and how each is doing
    inq,            \* ... the input queue
    outq,           \* ... the output queue
    csv_chunk,      \* ... the chunk of the data file it is working on
    enqueued,       \* ... the rows of that chunk it has put on inq
    collected       \* ... the results it has taken off outq for that chunk

workerVars == <<MATCH_CACHE, MISS_CACHE, AMBIG_CACHE, IGNORED_CACHE, FUZZY_CACHE,
                row, chunk, nrows, crashed>>
editVars == <<ed_df, ed_result>>
normVars == <<raw, label, previous, applied>>
driverVars == <<pc, chunks_read, processes, inq, outq, csv_chunk, enqueued, collected>>

vars == <<workerVars, editVars, normVars, driverVars>>

\* The columns of a row as the chunk holds them.
Columns(r) ==
    [target |-> r.target, speechdate |-> r.speechdate, out |-> r.out,
     ambiguous |-> r.ambiguous, fuzzy_matched |-> r.fuzzy_matched, ignored |-> r.ignored]

\* A row whose ambiguous flag is not reset before the loop body.
NewRowFlagged(target, speechdate, debate_id) ==
    [target |-> target, speechdate |-> speechdate, debate_id |-> debate_id,
     out |-> Text(target), ambiguous |-> 1, fuzzy_matched |-> 0, ignored |-> 0,
     answered |-> "", locals |-> Locals(target, None)]

\* A row before the loop body has touched it: the output column holds the
\* normalized label, the three flags are 0.
NewRow(target, speechdate, debate_id) ==
    [target |-> target, speechdate |-> speechdate, debate_id |-> debate_id,
     out |-> Text(target), ambiguous |-> 0, fuzzy_matched |-> 0, ignored |-> 0,
     answered |-> "", locals |-> Locals(target, None)]

\* No table has been handed to match_edit_distance_df.
EditInit ==
    /\ ed_df = <<>>
    /\ ed_result = EditDistanceScan("", <<>>, 0)

\* No label has been handed to preprocess.
NormInit ==
    /\ raw = ""
    /\ label = ""
    /\ previous = ""
    /\ applied = 0

\* The driver has made its queues and its Process objects; none is started.
DriverInit ==
    /\ pc = "start"
    /\ chunks_read = 0
    /\ processes = [p \in 1..CPU_CORES |-> "created"]
    /\ inq = <<>>
    /\ outq = <<>>
    /\ csv_chunk = <<>>
    /\ enqueued = 0
    /\ collected = 0

Init ==
    /\ EditInit
    /\ NormInit
    /\ DriverInit
    /\ MATCH_CACHE = <<>>
    /\ MISS_CACHE = {}
    /\ AMBIG_CACHE = <<>>
    /\ IGNORED_CACHE = {}
    /\ FUZZY_CACHE = {}
    /\ row = NewRow("", 0, 0)
    /\ chunk = {}
    /\ nrows = 0
    /\ crashed = FALSE

\* MATCH_CACHE.get((target, speechdate), None)
CacheGet(cache, key) == IF key \in DOMAIN cache THEN cache[key] ELSE None

\* The key under which the end of the loop body stores the row's outcome.
StoreKey(s, speechdate) == <<s.target, speechdate>>

\* One iteration of `for row in chunk.itertuples()`.
ProcessRow(target, speechdate, debate_id) ==
    LET key == <<target, speechdate>>
        r0 == NewRow(target, speechdate, debate_id)
        r1 == [r0 EXCEPT !.fuzzy_matched = IF key \in FUZZY_CACHE THEN 1 ELSE 0]
        cached == CacheGet(MATCH_CACHE, key)
        s == IF cached = None
             THEN FreshCascade[target, speechdate, debate_id]
             ELSE Cascade(target, cached, speechdate, debate_id)
        candidates == SelectSeq(s.possibles, Truthy)
        joined == IF candidates = <<>> THEN None ELSE Joined(candidates)
        done(r) == /\ row' = r
                   /\ chunk' = chunk \cup {Columns(r)}
    IN
    /\ ~crashed
    /\ nrows < MaxRows
    /\ nrows' = nrows + 1
    /\ UNCHANGED FUZZY_CACHE
    /\ IF key \in MISS_CACHE
       THEN /\ done([r1 EXCEPT !.out = None, !.answered = "miss_cache"])
            /\ UNCHANGED <<MATCH_CACHE, MISS_CACHE, AMBIG_CACHE, IGNORED_CACHE, crashed>>
       ELSE IF key \in DOMAIN AMBIG_CACHE
       THEN /\ done([r1 EXCEPT !.out = AMBIG_CACHE[key], !.ambiguous = 1,
                               !.answered = "ambig_cache"])
            /\ UNCHANGED <<MATCH_CACHE, MISS_CACHE, AMBIG_CACHE, IGNORED_CACHE, crashed>>
       ELSE IF target \in IGNORED_CACHE
       THEN /\ done([r1 EXCEPT !.out = None, !.ignored = 1, !.answered = "ignored_cache"])
            /\ UNCHANGED <<MATCH_CACHE, MISS_CACHE, AMBIG_CACHE, IGNORED_CACHE, crashed>>
       ELSE IF ~Truthy(cached) /\ IgnoreCheck[target]
       THEN /\ IGNORED_CACHE' = IGNORED_CACHE \cup {target}
            /\ done([r1 EXCEPT !.out = None, !.ignored = 1, !.answered = "ignore_check"])
            /\ UNCHANGED <<MATCH_CACHE, MISS_CACHE, AMBIG_CACHE, crashed>>
       ELSE IF s.error
       THEN /\ crashed' = TRUE
            /\ row' = [r1 EXCEPT !.answered = "exception", !.locals = s]
            /\ UNCHANGED <<MATCH_CACHE, MISS_CACHE, AMBIG_CACHE, IGNORED_CACHE, chunk>>
       ELSE IF s.match # None
       THEN /\ MATCH_CACHE' = (StoreKey(s, speechdate) :> s.match) @@ MATCH_CACHE
            /\ done([r1 EXCEPT !.fuzzy_matched = s.fuzzy_flag, !.out = s.match,
                               !.answered = IF Truthy(cached) THEN "match_cache" ELSE "cascade",
                               !.locals = s])
            /\ UNCHANGED <<MISS_CACHE, AMBIG_CACHE, IGNORED_CACHE, crashed>>
       ELSE IF s.ambiguity
       THEN /\ AMBIG_CACHE' = (StoreKey(s, speechdate) :> joined) @@ AMBIG_CACHE
            /\ done([r1 EXCEPT !.fuzzy_matched = s.fuzzy_flag, !.ambiguous = 1,
                               !.out = IF joined = None THEN @ ELSE joined,
                               !.answered = "cascade", !.locals = s])
            /\ UNCHANGED <<MATCH_CACHE, MISS_CACHE, IGNORED_CACHE, crashed>>
       ELSE /\ MISS_CACHE' = MISS_CACHE \cup {StoreKey(s, speechdate)}
            /\ done([r1 EXCEPT !.out = None, !.answered = "cascade", !.locals = s])
            /\ UNCHANGED <<MATCH_CACHE, AMBIG_CACHE, IGNORED_CACHE, crashed>>

Next ==
    /\ \E target \in Labels, speechdate \in Dates, debate_id \in DebateIds :
          ProcessRow(target, speechdate, debate_id)
    /\ UNCHANGED <<editVars, normVars, driverVars>>

Spec == Init /\ [][Next]_vars

(***************************************************************************)
(* The first row of a worker: the loop body on empty caches, for every     *)
(* label.                                                                  *)
(***************************************************************************)
ProcessFirstRow(target, speechdate, debate_id) ==
    /\ nrows = 0
    /\ ProcessRow(target, speechdate, debate_id)

FirstRowNext ==
    /\ \E target \in AllLabels, speechdate \in Dates, debate_id \in DebateIds :
          ProcessFirstRow(target, speechdate, debate_id)
    /\ UNCHANGED <<editVars, normVars, driverVars>>

FirstRowSpec == Init /\ [][FirstRowNext]_vars

(***************************************************************************)
(* match_edit_distance_df on its own, on tables of any length: the caller  *)
(* appends rows to df and calls the function.                              *)
(***************************************************************************)
\* The label searched for and the rows a table is made of: one whose alias
\* is within distance two of the label, one whose alias is not.
EdTarget == "lord holt"
EdRows ==
    { [alias |-> "lord hold", start_search |-> 1, end_search |-> 2, corresponding_id |-> 1],
      [alias |-> "lord grey", start_search |-> 1, end_search |-> 2, corresponding_id |-> 4] }

\* One more row in df; what an earlier call returned is dropped.
AppendRow(r) ==
    /\ Len(ed_df) < MaxTableLen
    /\ ed_df' = Append(ed_df, r)
    /\ ed_result' = EditDistanceScan("", <<>>, 0)
    /\ UNCHANGED <<workerVars, normVars, driverVars>>

\* match, ambiguity, possibles = match_edit_distance_df(target, date, df, ...)
CallMatchEditDistance(date) ==
    /\ ed_result' = match_edit_distance_df(EdTarget, date, ed_df)
    /\ UNCHANGED <<ed_df, workerVars, normVars, driverVars>>

EditNext ==
    \/ \E r \in EdRows : AppendRow(r)
    \/ \E date \in Dates : CallMatchEditDistance(date)

EditDistanceSpec == Init /\ [][EditNext]_vars

(***************************************************************************)
(* preprocess on its own: chunk['speaker'].map(preprocess), and preprocess *)
(* applied to its own result.                                              *)
(***************************************************************************)
\* The value of the 'speaker' column of a row.
ReadLabel(x) ==
    /\ raw = ""
    /\ raw' = x
    /\ label' = x
    /\ previous' = x
    /\ applied' = 0
    /\ UNCHANGED <<workerVars, editVars, driverVars>>

\* label = preprocess(label)
Preprocess ==
    /\ raw # ""
    /\ applied < 2
    /\ previous' = label
    /\ label' = preprocess(label)
    /\ applied' = applied + 1
    /\ UNCHANGED <<raw, workerVars, editVars, driverVars>>

NormalizeNext ==
    \/ \E x \in RawLabels : ReadLabel(x)
    \/ Preprocess

NormalizeSpec == Init /\ [][NormalizeNext]_vars

(***************************************************************************)
(* The driver of src/run.py and the worker processes it starts: the two    *)
(* queues, the per-chunk put loop and get loop, the end of the run.        *)
(***************************************************************************)
\* process_args = (inq, outq, HOLDINGS, FULL_ALIAS_DICT, ...)
process_args ==
    << "inq", "outq", "HOLDINGS", "FULL_ALIAS_DICT", "CORRECTIONS",
       "EXCHEQUER_DF", "PM_DF", "OFFICE_TERMS_DF" >>

\* def worker_function(inq, outq, data)
worker_parameters == << "inq", "outq", "data" >>

\* The 'speaker' column of the data file, and a row as chunk.itertuples()
\* gives it: (index, speechdate, speaker).
Speakers == {"Mr. Smith", "Lord Grey"}
RowTuple(index, speechdate, speaker) ==
    [type |-> "tuple", items |-> <<index, speechdate, speaker>>]

\* The chunks read_csv can give: up to MaxChunkRows rows, indexed from 0.
CsvChunks ==
    UNION { [1..n -> Dates \X Speakers] : n \in 0..MaxChunkRows }

\* What a worker puts on outq for a chunk: (0, chunk[[...]]).
ResultTuple(df) == [type |-> "tuple", items |-> <<0, df>>]

\* A process the operating system still runs.
Alive(status) == status \in {"started", "running"}

\* for p in processes: p.start()
StartProcess(p) ==
    /\ pc = "start"
    /\ processes[p] = "created"
    /\ \A q \in 1..(p - 1) : processes[q] # "created"
    /\ processes' = [processes EXCEPT ![p] = "started"]
    /\ pc' = IF p = CPU_CORES THEN "read" ELSE "start"
    /\ UNCHANGED <<inq, outq, csv_chunk, enqueued, collected, chunks_read, workerVars, editVars, normVars>>

\* A step of process p: the call worker_function(*process_args), which
\* raises TypeError unless the arguments fit the parameters; then the loop
\* of worker_function, one item of inq at a time: None makes it return, a
\* DataFrame is classified and put on outq, anything else raises at
\* chunk['speaker'].
RunProcess(p) ==
    /\ Alive(processes[p])
    /\ IF processes[p] = "started"
       THEN /\ processes' = [processes EXCEPT ![p] =
                    IF Len(process_args) = Len(worker_parameters)
                    THEN "running" ELSE "raised"]
            /\ UNCHANGED <<inq, outq>>
       ELSE /\ inq # <<>>
            /\ inq' = Tail(inq)
            /\ IF Head(inq) = None
               THEN /\ processes' = [processes EXCEPT ![p] = "returned"]
                    /\ UNCHANGED outq
               ELSE IF Head(inq).type = "DataFrame"
               THEN /\ outq' = Append(outq, ResultTuple(Head(inq).rows))
                    /\ UNCHANGED processes
               ELSE /\ processes' = [processes EXCEPT ![p] = "raised"]
                    /\ UNCHANGED outq
    /\ UNCHANGED <<pc, csv_chunk, enqueued, collected, chunks_read, workerVars, editVars, normVars>>

\* for chunk in pd.read_csv(DATA_FILE, chunksize=CHUNK_SIZE, ...): the next
\* chunk of the file.  A chunk without rows is the one chunk of a file that
\* holds its header line only.
ReadChunk(c) ==
    /\ pc = "read"
    /\ chunks_read < MaxChunks
    /\ c = <<>> => chunks_read = 0
    /\ chunks_read > 0 => csv_chunk # <<>>
    /\ chunks_read' = chunks_read + 1
    /\ csv_chunk' = c
    /\ enqueued' = 0
    /\ pc' = "put"
    /\ UNCHANGED <<processes, inq, outq, collected, workerVars, editVars, normVars>>

\* for index, speechdate, speaker in chunk.itertuples():
\*     inq.put((index, speechdate, speaker))
PutRow ==
    /\ pc = "put"
    /\ IF enqueued < Len(csv_chunk)
       THEN /\ inq' = Append(inq, RowTuple(enqueued, csv_chunk[enqueued + 1][1],
                                           csv_chunk[enqueued + 1][2]))
            /\ enqueued' = enqueued + 1
            /\ UNCHANGED <<pc, collected>>
       ELSE /\ pc' = "get"
            /\ collected' = 0
            /\ UNCHANGED <<inq, enqueued>>
    /\ UNCHANGED <<processes, outq, csv_chunk, chunks_read, workerVars, editVars, normVars>>

\* for i in range(len(chunk)): is_hit, is_ambig, missed_i = outq.get()
\* The get blocks until outq holds a message; a message that is not a
\* triple raises ValueError.  After the loop the driver reads on.
GetResult ==
    /\ pc = "get"
    /\ IF collected < Len(csv_chunk)
       THEN /\ outq # <<>>
            /\ outq' = Tail(outq)
            /\ IF Len(Head(outq).items) = 3
               THEN /\ collected' = collected + 1
                    /\ UNCHANGED pc
               ELSE /\ pc' = "raised"
                    /\ UNCHANGED collected
       ELSE /\ pc' = "read"
            /\ UNCHANGED <<outq, collected>>
    /\ UNCHANGED <<processes, inq, csv_chunk, enqueued, chunks_read, workerVars, editVars, normVars>>

\* The file has no more chunks: the two csv files are written.
EndOfFile ==
    /\ pc = "read"
    /\ chunks_read > 0
    /\ pc' = "terminate"
    /\ UNCHANGED <<processes, inq, outq, csv_chunk, enqueued, collected,
                   chunks_read, workerVars, editVars, normVars>>

\* for process in processes: process.terminate()
TerminateProcesses ==
    /\ pc = "terminate"
    /\ processes' = [p \in 1..CPU_CORES |->
                        IF Alive(processes[p]) THEN "terminated" ELSE processes[p]]
    /\ pc' = "done"
    /\ UNCHANGED <<inq, outq, csv_chunk, enqueued, collected, chunks_read, workerVars, editVars, normVars>>

\* The driver's own steps.
Driver ==
    \/ \E p \in 1..CPU_CORES : StartProcess(p)
    \/ \E c \in CsvChunks : ReadChunk(c)
    \/ PutRow
    \/ GetResult
    \/ EndOfFile
    \/ TerminateProcesses

PipelineNext ==
    \/ Driver
    \/ \E p \in 1..CPU_CORES : RunProcess(p)

\* The operating system runs every process that can take a step.
PipelineSpec ==
    /\ Init
    /\ [][PipelineNext]_vars
    /\ WF_vars(Driver)
    /\ \A p \in 1..CPU_CORES : WF_vars(RunProcess(p))

(***************************************************************************)
(* Vocabulary of the properties.                                           *)
(***************************************************************************)
\* The classification a row's columns carry.
Class(r) ==
    IF r.ignored = 1 THEN "Ignored"
    ELSE IF r.ambiguous = 1 THEN "Ambiguous"
    ELSE IF r.out = None THEN "Miss"
    ELSE "Matched"

\* The loop body has run on `row` to its end.
Classified == nrows > 0 /\ ~crashed

\* The keys the four caches hold; a label of IGNORED_CACHE counts for every date.
CachedPairs ==
    DOMAIN MATCH_CACHE \cup MISS_CACHE \cup DOMAIN AMBIG_CACHE
        \cup (IGNORED_CACHE \X Dates)

CachesHolding(key) ==
    {c \in {"match", "miss", "ambig", "ignored"} :
        \/ c = "match" /\ key \in DOMAIN MATCH_CACHE
        \/ c = "miss" /\ key \in MISS_CACHE
        \/ c = "ambig" /\ key \in DOMAIN AMBIG_CACHE
        \/ c = "ignored" /\ key[1] \in IGNORED_CACHE}

\* alias.str.contains(target) for every label and every alias of the two
\* alias tables, computed once.
AliasContains ==
    [target \in Labels,
     alias \in {r.alias : r \in Range(lord_titles_df) \cup Range(aliases_df)} |->
        Contains(alias, target)]

(***************************************************************************)
(* C1.  Determinism across repeats: two rows of one worker that carry the  *)
(* same (normalized label, date) pair receive the same classification,     *)
(* and when Matched the same identity, whatever rows came before or        *)
(* between them.                                                           *)
(***************************************************************************)
C1_SamePairSameClass ==
    \A a, b \in chunk :
        (a.target = b.target /\ a.speechdate = b.speechdate)
            => /\ Class(a) = Class(b)
               /\ (Class(a) = "Matched" => a.out = b.out)

(***************************************************************************)
(* C2.  In every reachable state no (label, date) pair is present in more  *)
(* than one of MATCH_CACHE, MISS_CACHE, AMBIG_CACHE and IGNORED_CACHE.     *)
(***************************************************************************)
C2_CachesMutuallyExclusive ==
    \A key \in CachedPairs : Cardinality(CachesHolding(key)) <= 1

\* Among the rows of df that fit, `selected` holds those that start at date and
\* none that ends at date.
StartIncludedEndExcluded(df, selected, date, fits(_)) ==
    \A n \in 1..Len(df) :
        fits(df[n]) =>
            /\ (df[n].start_search = date => df[n] \in Range(selected))
            /\ (df[n].end_search = date => df[n] \notin Range(selected))

(***************************************************************************)
(* C3.  Temporal correctness: a lookup made for a row of date d selects    *)
(* every otherwise matching reference row whose interval starts at d and   *)
(* no reference row whose interval ends at d -- in the lord-title, the     *)
(* name-alias and the office-holding lookups of the exact cascade and in   *)
(* the lookup of the edit-distance title stage.                            *)
(***************************************************************************)
C3_TemporalCorrectness ==
    LET l == row.locals
        d == row.speechdate
    IN  /\ "lord" \in l.ran =>
              StartIncludedEndExcluded(lord_titles_df, l.lord_query, d,
                  LAMBDA r : AliasContains[row.target, r.alias])
        /\ "alias" \in l.ran =>
              StartIncludedEndExcluded(aliases_df, l.alias_query, d,
                  LAMBDA r : AliasContains[row.target, r.alias])
        /\ "holdings" \in l.ran =>
              StartIncludedEndExcluded(holdings_df, l.holdings_query, d,
                  LAMBDA r : r.office_id = l.office_id)
        /\ "edit" \in l.ran =>
              StartIncludedEndExcluded(lord_titles_df, l.edit_query, d,
                  LAMBDA r : TRUE)

\* A lookup has selected a row that starts at the row's date and left out a
\* matching row that ends at it, in an exact stage and in the edit stage.
C3_Witness ==
    LET l == row.locals
        d == row.speechdate
    IN  /\ Classified
        /\ \E r \in Range(l.alias_query) : r.start_search = d
        /\ \E r \in Range(aliases_df) :
              /\ AliasContains[row.target, r.alias]
              /\ r.end_search = d
              /\ r \notin Range(l.alias_query)
        /\ \E r \in Range(l.edit_query) : r.start_search = d
        /\ \E r \in Range(lord_titles_df) :
              r.end_search = d /\ r \notin Range(l.edit_query)

(***************************************************************************)
(* C4.  A reference row that carries the unresolved sentinel is never      *)
(* treated as a match: no row is emitted as Matched, and nothing is stored *)
(* in MATCH_CACHE, on the strength of such a row (the alias text of the    *)
(* row standing in for an identity).                                       *)
(***************************************************************************)
C4_SentinelNeverMatched ==
    /\ (Classified /\ Class(row) = "Matched") => row.out.kind # "text"
    /\ \A key \in DOMAIN MATCH_CACHE : MATCH_CACHE[key].kind # "text"

(***************************************************************************)
(* C5.  Row-level lookup failures never abort a batch: no exception        *)
(* leaves the loop, and a row for which a stage looked up a corresponding  *)
(* id the registry lacks is classified Miss.                               *)
(***************************************************************************)
C5_LookupFailureContained ==
    /\ ~crashed
    /\ (Classified /\ row.locals.failed_lookup) => Class(row) = "Miss"

(***************************************************************************)
(* C6.  Ambiguity narrowing by age: the speaker the age / in-office        *)
(* narrowing returns as the single surviving match is never younger than   *)
(* 20 at the row's date.                                                   *)
(***************************************************************************)
C6_NarrowedMatchIsOfAge ==
    (Classified /\ row.locals.flag = FlagNarrowed) =>
        /\ Class(row) = "Matched"
        /\ row.out.kind = "speaker"
        /\ age_at(speaker_dict[row.out.id], row.speechdate) >= MinAge

\* The narrowing has resolved a row one of whose candidates was under 20.
C6_Witness ==
    /\ Classified
    /\ row.locals.flag = FlagNarrowed
    /\ \E i \in Range(alias_dict(row.target)) :
          /\ matches(speaker_dict[i], row.target, row.speechdate)
          /\ age_at(speaker_dict[i], row.speechdate) < MinAge

(***************************************************************************)
(* C7.  A normalized label shorter than 35 characters that starts with an  *)
(* ignore prefix is classified Ignored (ignored flag 1, null identity),    *)
(* for every date and after any rows processed before.                     *)
(***************************************************************************)
C7_PrefixedLabelIgnored ==
    ( /\ Classified
      /\ Len(row.target) < IgnoreLen
      /\ \E k \in 1..Len(IGNORE_PREFIXES) : StartsWith(row.target, IGNORE_PREFIXES[k]) )
    => (row.ignored = 1 /\ row.out = None)

\* The label is not ignored and no stage of the cascade has a candidate for it
\* at date, for every label and date, computed once.
NoCandidate ==
    [target \in Labels, date \in Dates |->
        LET office_id == OfficeLoop(target, 1)
            near == OfficeIdsWithin(target, Len(office_dict))
        IN  /\ ~IgnoreCheck[target]
            /\ LordTitlesQuery(target, date) = <<>>
            /\ AliasesQuery(target, date) = <<>>
            /\ office_id # NoOffice => HoldingsQuery(office_id, date) = <<>>
            /\ \A i \in Range(alias_dict(target)) : ~matches(speaker_dict[i], target, date)
            /\ \A r \in Range(match_term(lord_titles_df, date)) :
                  ~within_distance_two(target, r.alias)
            /\ \A r \in Range(match_term(holdings_df, date)) : r.office_id \notin Range(near)
            /\ NamePermutationScan(StripInitials(target), date, Len(edit_distance_keys)) = <<>>]

(***************************************************************************)
(* C8.  A non-ignored label with no matching alias valid at the date in    *)
(* any exact stage or in the alias dictionary, and no candidate in any     *)
(* edit-distance stage, is classified Miss: null identity, ambiguous = 0,  *)
(* ignored = 0, and its pair is in MISS_CACHE.                             *)
(***************************************************************************)
C8_NoCandidateIsMiss ==
    (Classified /\ NoCandidate[row.target, row.speechdate]) =>
        /\ row.out = None
        /\ row.ambiguous = 0
        /\ row.ignored = 0
        /\ <<row.target, row.speechdate>> \in MISS_CACHE

\* The holders at date of the office the label is an alias of, when no title
\* or name alias row matches the label, for every label and date.
OfficeHolders ==
    [target \in Labels, date \in Dates |->
        LET office_id == OfficeLoop(target, 1)
        IN  IF /\ office_id # NoOffice
               /\ LordTitlesQuery(target, date) = <<>>
               /\ AliasesQuery(target, date) = <<>>
            THEN {r.corresponding_id : r \in Range(HoldingsQuery(office_id, date))}
            ELSE {}]

(***************************************************************************)
(* C9.  Office resolution: when the label is an alias of an office, no     *)
(* title or name alias row matches it, and exactly one person holds the    *)
(* office at the date, the row is Matched to that holder's id with the     *)
(* fuzzy flag unset.                                                       *)
(***************************************************************************)
C9_SingleOfficeHolderMatched ==
    \A holder \in DOMAIN speaker_dict :
        (Classified /\ OfficeHolders[row.target, row.speechdate] = {holder}) =>
            /\ Class(row) = "Matched"
            /\ row.out = Speaker(holder)
            /\ row.fuzzy_matched = 0

\* The speakers of the rows of df valid at date whose alias is the label.
TableSharers(df, target, date) ==
    {r.corresponding_id :
        r \in {x \in Range(df) : /\ InTerm(x, date)
                                 /\ x.alias = target
                                 /\ x.corresponding_id \in DOMAIN speaker_dict}}

\* The sets of speakers that share the label as an alias valid at date: in the
\* lord-title table, in the name-alias table, in the alias dictionary.
Sharers ==
    [target \in Labels, date \in Dates |->
        { TableSharers(lord_titles_df, target, date),
          TableSharers(aliases_df, target, date),
          {i \in Range(alias_dict(target)) : matches(speaker_dict[i], target, date)} }]

(***************************************************************************)
(* C10.  When two speakers share an identical alias valid on the row's     *)
(* date and the inference hint of the row's debate names one of the two,   *)
(* the row is Matched to the hinted speaker.                               *)
(***************************************************************************)
C10_HintResolvesSharedAlias ==
    \A pair \in (IF Classified THEN Sharers[row.target, row.speechdate] ELSE {}) :
        ( /\ Cardinality(pair) = 2
          /\ row.debate_id \in DOMAIN inferences
          /\ inferences[row.debate_id] \in pair )
        => (Class(row) = "Matched" /\ row.out = Speaker(inferences[row.debate_id]))

\* The step takes a row and runs the loop body on it to its end.
RowDone == nrows' = nrows + 1 /\ ~crashed'

\* The (label, date) pair of the row the step takes.
TakenPair == <<row'.target, row'.speechdate>>

\* A row classified before the step carried the pair of the row the step takes.
SeenBefore == \E a \in chunk : <<a.target, a.speechdate>> = TakenPair

(***************************************************************************)
(* C14.  The fuzzy flag is preserved across repeats: once a row of a       *)
(* (label, date) pair has been emitted with fuzzy_matched = 1, every later *)
(* row of the worker with the same pair is emitted with fuzzy_matched = 1. *)
(***************************************************************************)
C14_FuzzyFlagPreserved ==
    [][ (RowDone /\ \E a \in chunk : /\ <<a.target, a.speechdate>> = TakenPair
                                     /\ a.fuzzy_matched = 1)
        => row'.fuzzy_matched = 1 ]_vars

\* The caches the step changes, and the keys the step adds to the four caches.
CachesChanged ==
    {c \in {"match", "miss", "ambig", "ignored"} :
        \/ c = "match" /\ MATCH_CACHE' # MATCH_CACHE
        \/ c = "miss" /\ MISS_CACHE' # MISS_CACHE
        \/ c = "ambig" /\ AMBIG_CACHE' # AMBIG_CACHE
        \/ c = "ignored" /\ IGNORED_CACHE' # IGNORED_CACHE}

KeysAdded ==
    Cardinality(DOMAIN MATCH_CACHE' \ DOMAIN MATCH_CACHE)
    + Cardinality(MISS_CACHE' \ MISS_CACHE)
    + Cardinality(DOMAIN AMBIG_CACHE' \ DOMAIN AMBIG_CACHE)
    + Cardinality(IGNORED_CACHE' \ IGNORED_CACHE)

(***************************************************************************)
(* C15.  Processing a row whose pair none of the match, miss, ambiguity    *)
(* and ignore caches holds adds an entry to exactly one of the four caches *)
(* and leaves the other three unchanged.                                   *)
(***************************************************************************)
C15_ExactlyOneCachePopulated ==
    [][ (nrows' = nrows + 1 /\ TakenPair \notin CachedPairs)
        => (Cardinality(CachesChanged) = 1 /\ KeysAdded = 1) ]_vars

(***************************************************************************)
(* C16.  The full cascade runs at most once per (label, date) pair per     *)
(* worker: a row whose pair an earlier row of the worker carried is        *)
(* answered from a cache, the key written at the end of the cascade being  *)
(* the key probed at the start of the row.                                 *)
(***************************************************************************)
C16_CascadeOncePerPair ==
    [][ /\ (RowDone /\ SeenBefore) =>
              row'.answered \in {"miss_cache", "ambig_cache", "ignored_cache", "match_cache"}
        /\ (RowDone /\ row'.answered = "cascade") =>
              StoreKey(row'.locals, row'.speechdate) = TakenPair ]_vars

\* The corresponding ids of the rows of q, the unresolved sentinel left out.
ResolvedIds(q) ==
    {r.corresponding_id : r \in {x \in Range(q) : x.corresponding_id # NaN}}

\* The resolved ids of the first exact stage, in the order lord titles, name
\* aliases, office holdings, that has any, for every label and date.
ExactCandidates ==
    [target \in Labels, date \in Dates |->
        LET lords == ResolvedIds(LordTitlesQuery(target, date))
            names == ResolvedIds(AliasesQuery(target, date))
            office_id == OfficeLoop(target, 1)
            holders == IF office_id # NoOffice
                       THEN ResolvedIds(HoldingsQuery(office_id, date))
                       ELSE {}
        IN  IF lords # {} THEN lords ELSE IF names # {} THEN names ELSE holders]

\* The cascade has run on `row` to its end (no cache answered the row).
CascadeRan == Classified /\ row.answered = "cascade"

(***************************************************************************)
(* C17.  Exact cascade stage counting: the rows of a stage are counted by  *)
(* distinct corresponding id with the unresolved sentinel left out; a      *)
(* stage whose valid rows all carry the sentinel counts as empty and the   *)
(* next stage is tried, and a stage with exactly one resolved id (and any  *)
(* number of sentinel rows) yields Matched to that id.                     *)
(***************************************************************************)
C17_ExactStageCountsResolvedIds ==
    \A id \in DOMAIN speaker_dict :
        (CascadeRan /\ ExactCandidates[row.target, row.speechdate] = {id}) =>
            (Class(row) = "Matched" /\ row.out = Speaker(id))

\* The valid rows of lord_titles_df within distance two of the label.
TitleHits ==
    [target \in Labels, date \in Dates |->
        SelectSeq(match_term(lord_titles_df, date),
                  LAMBDA r : within_distance_two(target, r.alias))]

\* The local variables of a row right after the edit-distance title stage.
AfterTitleStage ==
    [target \in Labels, date \in Dates |->
        EditDistanceTitleStage(
            AliasDictStage(ExactStage(Locals(target, None), date), date), date)]

\* The edit-distance title stage has run on `row`.
TitleStageRan == CascadeRan /\ "edit" \in row.locals.ran

(***************************************************************************)
(* C18.  Edit-distance title stage: with two or more valid rows within the *)
(* threshold (three or more included) the stage returns no match and       *)
(* leaves the row ambiguous with the fuzzy flag set; with exactly one such *)
(* row it leaves the row matched with the fuzzy flag set.                  *)
(***************************************************************************)
C18_TitleStageOutcome ==
    TitleStageRan =>
        LET hits == Len(TitleHits[row.target, row.speechdate])
            after == AfterTitleStage[row.target, row.speechdate]
        IN  /\ hits >= 2 =>
                  (~Truthy(after.match) /\ after.ambiguity /\ after.fuzzy_flag = 1)
            /\ hits = 1 =>
                  (Truthy(after.match) /\ ~after.ambiguity /\ after.fuzzy_flag = 1)

\* The valid rows of holdings_df of the offices an alias of which is within
\* distance four of the label.
OfficeHits ==
    [target \in Labels, date \in Dates |->
        LET office_ids == OfficeIdsWithin(target, Len(office_dict))
        IN  SelectSeq(match_term(holdings_df, date),
                      LAMBDA r : r.office_id \in Range(office_ids))]

\* The edit-distance office stage has run on `row`: the title stage left it
\* without match and without ambiguity.
OfficeStageRan ==
    /\ TitleStageRan
    /\ LET after == AfterTitleStage[row.target, row.speechdate]
       IN  ~Truthy(after.match) /\ ~after.ambiguity

(***************************************************************************)
(* C19.  Edit-distance candidates are counted by distinct corresponding    *)
(* id: in the edit-distance title stage and in the edit-distance office    *)
(* stage, two or more valid rows that all carry one corresponding id are   *)
(* one candidate and the row is Matched to it, not Ambiguous.              *)
(***************************************************************************)
C19_EditCandidatesDeduplicated ==
    \A id \in DOMAIN speaker_dict :
        /\ ( /\ TitleStageRan
             /\ Len(TitleHits[row.target, row.speechdate]) >= 2
             /\ \A r \in Range(TitleHits[row.target, row.speechdate]) : r.corresponding_id = id )
           => (Class(row) = "Matched" /\ row.out = Speaker(id))
        /\ ( /\ OfficeStageRan
             /\ Len(OfficeHits[row.target, row.speechdate]) >= 2
             /\ \A r \in Range(OfficeHits[row.target, row.speechdate]) : r.corresponding_id = id )
           => (Class(row) = "Matched" /\ row.out = Speaker(id))

(***************************************************************************)
(* C20.  The candidate list match_edit_distance_df returns never holds     *)
(* more than 5 entries, whatever the table and however many of its rows    *)
(* are within the distance threshold.                                      *)
(***************************************************************************)
C20_PossiblesCapped == Len(ed_result.possibles) <= MaxPossibles

\* The call returned 5 candidates from a table with more rows within the
\* threshold than the loop took before it broke off.
C20_Witness ==
    /\ Len(ed_result.possibles) = MaxPossibles
    /\ ed_result.broke
    /\ Len(SelectSeq(ed_df, LAMBDA r : within_distance_two(EdTarget, r.alias)))
          > 2 * MaxPossibles

(***************************************************************************)
(* C11.  Normalization is idempotent: preprocess applied to a label that   *)
(* preprocess returned gives the same label.                               *)
(***************************************************************************)
C11_PreprocessIdempotent == applied = 2 => label = previous


(***************************************************************************)
(* C12.  Shutdown protocol: the driver enqueues one sentinel per worker    *)
(* after the last chunk, so that every worker dequeues a sentinel and      *)
(* returns.  When the driver has finished, every worker process has        *)
(* returned from worker_function, which it does only on a sentinel.        *)
(***************************************************************************)
C12_EveryWorkerSeesSentinel ==
    pc = "done" => \A p \in 1..CPU_CORES : processes[p] = "returned"

(***************************************************************************)
(* C13.  Fan-out/fan-in: what the driver has put on the input queue is     *)
(* answered on the output queue, and the driver's collection loop gets a   *)
(* result for every row it enqueued and completes: a driver in the get     *)
(* loop leaves it.                                                         *)
(***************************************************************************)
C13_CollectionLoopCompletes == (pc = "get") ~> (pc = "read")


\* The row's locals as the exact stages leave them on a MATCH_CACHE miss, for
\* every label and date.
AfterExactStage ==
    [target \in AllLabels, date \in Dates |-> ExactStage(Locals(target, None), date)]

\* The speakers alias_dict lists for the label that are compatible with the
\* date, for every key of alias_dict and every date.
CompatibleSpeakers ==
    [target \in AliasDictKeys, date \in Dates |->
        SelectSeq(alias_dict(target), LAMBDA i : matches(speaker_dict[i], target, date))]

\* The alias_dict lookup has run on `row` and found the label among its keys.
AliasDictLookupRan ==
    /\ CascadeRan
    /\ row.target \in AliasDictKeys
    /\ ~Truthy(AfterExactStage[row.target, row.speechdate].match)

(***************************************************************************)
(* C21.  Direct alias-dictionary lookup: of the speakers listed for the    *)
(* label, exactly one compatible with the date yields Matched to it;       *)
(* ambiguity is raised only when more than one is compatible; when none    *)
(* is, the row is not marked Ambiguous (unless the exact stages had made   *)
(* it so) and the fuzzy stages are still tried.                            *)
(***************************************************************************)
C21_AliasDictLookupOutcome ==
    AliasDictLookupRan =>
        LET compatible == CompatibleSpeakers[row.target, row.speechdate]
        IN  /\ Len(compatible) = 1 =>
                 Class(row) = "Matched" /\ row.out = Speaker(compatible[1])
            /\ (Len(compatible) = 0 /\ ~row.locals.provisional) =>
                 Class(row) # "Ambiguous" /\ "edit" \in row.locals.ran


\* The row's locals as the stages before the name-permutation stage leave
\* them on a MATCH_CACHE miss, for every label and date.
BeforeNamePermutation ==
    [target \in AllLabels, date \in Dates |->
        EditDistanceOfficeStage(
          EditDistanceTitleStage(
            AliasDictStage(ExactStage(Locals(target, None), date), date),
            date),
          date)]

\* The name-permutation stage has run on `row`.
NamePermutationRan ==
    /\ CascadeRan
    /\ LET s == BeforeNamePermutation[row.target, row.speechdate]
       IN  ~s.error /\ ~Truthy(s.match) /\ ~s.ambiguity

\* The distinct speakers the scan of the name-permutation stage collects for
\* the label and the date.
NameCandidates(target, date) ==
    {v.id : v \in Range(NamePermutationScan(StripInitials(target), date,
                                            Len(edit_distance_keys)))}

(***************************************************************************)
(* C22.  Name-permutation fuzzy stage: the candidates are distinct         *)
(* speakers.  When exactly one distinct speaker is collected, even by      *)
(* several of its generated aliases, the row is Matched to that speaker;   *)
(* when two or more are, the row is Ambiguous unless a later tie-breaker   *)
(* resolves it to one of them.                                             *)
(***************************************************************************)
C22_NamePermutationDistinctSpeakers ==
    NamePermutationRan =>
        LET candidates == NameCandidates(row.target, row.speechdate)
        IN  /\ Cardinality(candidates) = 1 =>
                 /\ Class(row) = "Matched"
                 /\ \E i \in candidates : row.out = Speaker(i)
            /\ Cardinality(candidates) > 1 =>
                 \/ Class(row) = "Ambiguous"
                 \/ Class(row) = "Matched" /\ \E i \in candidates : row.out = Speaker(i)


\* The speakers with a generated alias within edit distance two of the label
\* as the name-permutation stage compares it.
NearSpeakers(target) ==
    {i \in Range(speakers) :
        \E k \in 1..Len(speaker_dict[i].edit_distance_aliases) :
            within_distance_two(StripInitials(target),
                                speaker_dict[i].edit_distance_aliases[k])}

(***************************************************************************)
(* C23.  In the name-permutation stage the service window of a speaker is  *)
(* half-open, [start_date, end_date): of the speakers with an alias near   *)
(* the label, one whose end_date is the row's date is not collected, and   *)
(* one whose start_date is the row's date (and who has not ended) is.      *)
(***************************************************************************)
C23_ServiceWindowHalfOpen ==
    NamePermutationRan =>
        LET date == row.speechdate
            found_near == NameCandidates(row.target, date)
        IN  \A i \in NearSpeakers(row.target) :
                /\ speaker_dict[i].end_date = date => i \notin found_near
                /\ (speaker_dict[i].start_date = date /\ date < speaker_dict[i].end_date)
                       => i \in found_near


\* The row's locals as the stages that collect candidates leave them (the
\* inference hint comes next), for every label and date.
BeforeHint ==
    [target \in AllLabels, date \in Dates |->
        NamePermutationStage(BeforeNamePermutation[target, date], date)]

\* The row's locals as disambiguate finds them, for every label, date and
\* deliberation.
BeforeDisambiguate ==
    [target \in AllLabels, date \in Dates, debate_id \in DebateIds |->
        NarrowingStage(InferenceStage(BeforeHint[target, date], debate_id), date)]

\* The candidates that make a row ambiguous: the speakers a stage listed, or
\* the resolved ids of the rows an exact stage returned.
MadeAmbiguous(s) ==
    IF ~s.ambiguity THEN {}
    ELSE IF s.possibles # <<>> THEN Range(s.possibles)
    ELSE {Speaker(id) : id \in ResolvedIds(s.query)}

(***************************************************************************)
(* C24.  Last-resort finalization of a row the stages left ambiguous: if   *)
(* disambiguate returns a speaker the row is Matched; if it returns the    *)
(* no-resolution sentinel (-1) the row is Ambiguous and its emitted list   *)
(* holds the candidates that made it ambiguous (stated here for the        *)
(* candidates a stage listed in possibles); a row without any candidate    *)
(* is a Miss, never Ambiguous.                                             *)
(***************************************************************************)
C24_LastResortFinalization ==
    CascadeRan =>
        LET collected_by == BeforeHint[row.target, row.speechdate]
            last == BeforeDisambiguate[row.target, row.speechdate, row.debate_id]
            answer == disambiguate(last.target, row.speechdate, row.debate_id)
            made == MadeAmbiguous(collected_by)
        IN  /\ (last.ambiguity /\ answer # NoResolution) => Class(row) = "Matched"
            /\ (last.ambiguity /\ answer = NoResolution) =>
                 /\ Class(row) = "Ambiguous"
                 /\ collected_by.possibles # <<>> =>
                        (row.out.kind = "joined" /\ made \subseteq Range(row.out.list))
            /\ (~Truthy(collected_by.match) /\ made = {}) => Class(row) = "Miss"


\* The speaker the hint of a deliberation names (None: no hint).
HintedSpeaker(debate_id) ==
    IF debate_id \in DOMAIN inferences /\ inferences[debate_id] \in DOMAIN speaker_dict
    THEN Speaker(inferences[debate_id])
    ELSE None

\* The row's locals at the end of the cascade had the inference hint not been
\* consulted, for every label, date and deliberation.
WithoutHint ==
    [target \in AllLabels, date \in Dates, debate_id \in DebateIds |->
        DisambiguateStage(NarrowingStage(BeforeHint[target, date], date),
                          date, debate_id)]

\* The row is Matched to the speaker its deliberation's hint names, and would
\* not be without the hint.
ResolvedByHint ==
    /\ CascadeRan
    /\ HintedSpeaker(row.debate_id) # None
    /\ Class(row) = "Matched"
    /\ row.out = HintedSpeaker(row.debate_id)
    /\ WithoutHint[row.target, row.speechdate, row.debate_id].match
           # HintedSpeaker(row.debate_id)

HasIgnorePrefix(target) ==
    \E k \in 1..Len(IGNORE_PREFIXES) : StartsWith(target, IGNORE_PREFIXES[k])

(***************************************************************************)
(* C26.  Length threshold of the ignore check: a label of 35 characters    *)
(* or more is never Ignored by the keyword and prefix rules, whatever its  *)
(* prefix; a label of 34 characters or fewer that starts with an ignore    *)
(* prefix is Ignored, and no matching stage is consulted for it.           *)
(***************************************************************************)
C26_IgnoreLengthThreshold ==
    Classified =>
        /\ (Len(row.target) >= IgnoreLen /\ row.target \notin ignored_set)
               => Class(row) # "Ignored"
        /\ (Len(row.target) < IgnoreLen /\ HasIgnorePrefix(row.target))
               => (Class(row) = "Ignored" /\ row.locals.ran = {})


\* The offices one of whose aliases the label contains as a substring.
OfficesContained(target) ==
    {office_dict[n].id : n \in {k \in 1..Len(office_dict) :
        \E a \in Range(office_dict[k].aliases) : Contains(target, a)}}

\* The exact office stage has been reached by `row`, whose label is no office
\* alias and contains one.
ContainsOfficeAlias ==
    /\ CascadeRan
    /\ OfficeLoop(row.target, 1) = NoOffice
    /\ OfficesContained(row.target) # {}
    /\ LordTitlesQuery(row.target, row.speechdate) = <<>>
    /\ AliasesQuery(row.target, row.speechdate) = <<>>

(***************************************************************************)
(* C27.  Office holdings by substring containment: when the label is not   *)
(* an office alias and contains an alias of an office, the exact office    *)
(* stage selects that office and queries its holdings valid at the date;   *)
(* a single holder yields Matched to that holder.                          *)
(***************************************************************************)
C27_OfficeBySubstring ==
    ContainsOfficeAlias =>
        /\ row.locals.office_id \in OfficesContained(row.target)
        /\ "holdings" \in row.locals.ran
        /\ \A id \in DOMAIN speaker_dict :
               ResolvedIds(HoldingsQuery(row.locals.office_id, row.speechdate)) = {id}
                   => (Class(row) = "Matched" /\ row.out = Speaker(id))


\* The rows the exact stages hand to the count, as the lookups recorded in
\* the row's locals give them: those of the first lookup that returned any.
FirstNonEmpty(l) ==
    IF l.lord_query # <<>> THEN l.lord_query
    ELSE IF l.alias_query # <<>> THEN l.alias_query
    ELSE l.holdings_query

(***************************************************************************)
(* C28.  Fixed priority order of the exact cascade: the lord-title         *)
(* aliases are consulted first, the name aliases only when the lord-title  *)
(* lookup returned no row valid at the date, the office holdings only      *)
(* when both returned none; the rows of an earlier lookup are never        *)
(* replaced by those of a later one.                                       *)
(***************************************************************************)
C28_ExactPriorityOrder ==
    CascadeRan =>
        LET l == row.locals
            date == row.speechdate
        IN  /\ "lord" \in l.ran
            /\ l.lord_query = LordTitlesQuery(row.target, date)
            /\ "alias" \in l.ran =>
                  (l.lord_query = <<>> /\ l.alias_query = AliasesQuery(row.target, date))
            /\ "holdings" \in l.ran => (l.lord_query = <<>> /\ l.alias_query = <<>>)
            /\ AfterExactStage[row.target, date].query = drop_duplicates(FirstNonEmpty(l))

\* The lord-title lookup returned a row for a label that the name-alias table
\* holds too at that date, and the name aliases were not consulted.
C28_Witness ==
    /\ CascadeRan
    /\ row.locals.lord_query # <<>>
    /\ AliasesQuery(row.target, row.speechdate) # <<>>
    /\ "alias" \notin row.locals.ran
    /\ AfterExactStage[row.target, row.speechdate].query
           = drop_duplicates(row.locals.lord_query)


\* The groups of the matches of PARENTHESIS_REGEX in s, from i on: the text
\* of every parenthesized segment, in order.
RECURSIVE ParenSegments(_, _)
ParenSegments(s, i) ==
    IF i > Len(s) THEN <<>>
    ELSE IF ParenEnd(s, i) # 0
    THEN <<SubSeq(s, i + 1, ParenEnd(s, i) - 1)>> \o ParenSegments(s, ParenEnd(s, i) + 1)
    ELSE ParenSegments(s, i + 1)

\* The cleansed texts of the parenthesized segments of s that are keys of
\* alias_dict.
AliasSegments(s) ==
    {cleanse_string(g) : g \in Range(ParenSegments(s, 1))} \cap AliasDictKeys

(***************************************************************************)
(* C29.  Parenthetical rule of the normalizer: if the raw label has a      *)
(* parenthesized segment, the first or a later one, whose cleansed text    *)
(* is a key of the alias dictionary, preprocess returns that text and      *)
(* nothing else; otherwise it returns the label normalized with every      *)
(* parenthesized segment removed.                                          *)
(***************************************************************************)
C29_ParentheticalRule ==
    applied = 1 =>
        IF AliasSegments(raw) # {}
        THEN label \in AliasSegments(raw)
        ELSE label = postprocess(cleanse_string(
                         ApplyCorrections(cleanse_string(RemoveParensFrom(raw, 1)),
                                          Len(misspellings_dict))))


\* What a worker whose caches are empty emits for a row that is the only row
\* it receives: its class and, when Matched, the identity; "Raised" when the
\* loop body raises. Computed once per (label, date, deliberation).
AloneOutcome ==
    [target \in Labels, speechdate \in Dates, debate_id \in DebateIds |->
        LET s == FreshCascade[target, speechdate, debate_id]
        IN  IF IgnoreCheck[target] THEN [class |-> "Ignored", out |-> None]
            ELSE IF s.error THEN [class |-> "Raised", out |-> None]
            ELSE IF s.match # None THEN [class |-> "Matched", out |-> s.match]
            ELSE IF s.ambiguity THEN [class |-> "Ambiguous", out |-> None]
            ELSE [class |-> "Miss", out |-> None]]

(***************************************************************************)
(* C30.  Schedule independence: the classification a worker emits for a    *)
(* row, and the identity when Matched, are those the row gets as the only  *)
(* row of a worker with empty caches, whatever rows the worker received    *)
(* before it -- so no distribution or order of batches changes them.       *)
(***************************************************************************)
C30_ScheduleIndependent ==
    Classified =>
        LET alone == AloneOutcome[row.target, row.speechdate, row.debate_id]
        IN  /\ Class(row) = alone.class
            /\ (Class(row) = "Matched" => row.out = alone.out)


\* The values the suggested-speaker column may hold in an emitted row: null,
\* a resolved identity, or a joined candidate list.
IdentityKinds == {"none", "speaker", "id", "joined"}

(***************************************************************************)
(* C31.  In every emitted row the suggested-speaker field is null, a       *)
(* resolved identity or a '|'-joined candidate list, never the normalized  *)
(* label the column was initialised with; and a row emitted with           *)
(* ambiguous = 1 carries a non-empty candidate list, on its first          *)
(* classification and on an AMBIG_CACHE hit alike.                         *)
(***************************************************************************)
C31_OutputNeverLabelText ==
    Classified =>
        /\ row.out.kind \in IdentityKinds
        /\ row.out # Text(row.target)
        /\ row.ambiguous = 1 => (row.out.kind = "joined" /\ row.out.list # <<>>)


(***************************************************************************)
(* C32.  In every emitted row ambiguous and ignored are never both 1; a    *)
(* row with ignored = 1 has a null identity and fuzzy_matched = 0; and a   *)
(* row whose identity is a resolved speaker has ambiguous = 0 and          *)
(* ignored = 0.                                                            *)
(***************************************************************************)
C32_FlagsConsistent ==
    Classified =>
        /\ ~(row.ambiguous = 1 /\ row.ignored = 1)
        /\ row.ignored = 1 => (row.out = None /\ row.fuzzy_matched = 0)
        /\ row.out.kind \in {"speaker", "id"} => (row.ambiguous = 0 /\ row.ignored = 0)

\* A row has been Ignored by the ignore check, and another one Matched to
\* a speaker.
C32_Witness ==
    /\ Classified
    /\ \E a, b \in chunk :
          /\ a.ignored = 1
          /\ b.out.kind = "speaker"
          /\ b.ambiguous = 0

=============================================================================
